---- MODULE Spec2Model ----
(***************************************************************************)
(* Devil's checkerboard: colourings of the ndim-dimensional hypercube.     *)
(* The model follows devils_checkerboard.cc (unit "cc": hardware popcount, *)
(* BFS driver) and the later variant of the same file (unit "part": the    *)
(* SSE4.1-optional popcount, MirrorAssignment, the mirror driver `main`    *)
(* and the BFS driver `old_main`).                                         *)
(***************************************************************************)
EXTENDS Integers, Sequences, FiniteSets, TLC

(***************************************************************************)
(* Bounds of the model                                                     *)
(***************************************************************************)
\* direct calls GenerateColoring(ndim) / MirrorAssignment(ndim): ndim in 1..MaxNdim
MaxNdim == 5
\* direct calls ValidateColoring(coloring, ndim) on arbitrary arrays: ndim in 1..MaxValNdim
MaxValNdim == 3
\* ... whose arrays differ from the seed colouring in at most MaxDiff vertices
MaxDiff == 2
\* PopCount inputs: every 16-bit limb is one of the first NumPatterns of LimbPatterns
NumPatterns == 5

(***************************************************************************)
(* Machine words.  TLC integers are 32-bit signed, so a uint32_t/uint64_t  *)
(* that goes through PopCount is a little-endian sequence of 16-bit limbs  *)
(* (2 limbs = uint32_t, 4 limbs = uint64_t).  Vertex ids, colours and the  *)
(* colour bitmask stay below 2^17 in every run of the model and are plain  *)
(* naturals.                                                               *)
(***************************************************************************)
LimbBits == 16

\* 1 << n
Pow2(n) == 2 ^ n

LimbBase == Pow2(LimbBits)

\* Call by value: the operands are evaluated once, then F is applied to them
\* (TLC would otherwise re-evaluate an operand expression at every use).
Bind1(F(_), a) == CHOOSE r \in {F(x) : x \in {a}} : TRUE

Bind2(F(_, _), a, b) == CHOOSE r \in {F(x, y) : x \in {a}, y \in {b}} : TRUE

\* the word of n limbs whose i-th limb is F(i)
MkWord(F(_), n) ==
  IF n = 2 THEN <<F(1), F(2)>> ELSE <<F(1), F(2), F(3), F(4)>>

NatToWord(n, width) ==
  MkWord(LAMBDA i : IF i = 1 THEN n % LimbBase
                    ELSE IF i = 2 THEN n \div LimbBase ELSE 0,
         width \div LimbBits)

\* defined for words below 2^31 (every count and every small value is)
WordToNat(x) == Bind1(LAMBDA w : w[1] + LimbBase * w[2], x)

Limb(x, i) == IF i >= 1 /\ i <= Len(x) THEN x[i] ELSE 0

\* a & b on the low `bits` bits of two limbs, by halves
RECURSIVE BitAnd(_, _, _)
BitAnd(a, b, bits) ==
  IF bits = 1 THEN (a % 2) * (b % 2)
  ELSE LET h == bits \div 2
       IN BitAnd(a % Pow2(h), b % Pow2(h), h)
          + Pow2(h) * BitAnd(a \div Pow2(h), b \div Pow2(h), h)

\* a & b
AndW(a, b) ==
  Bind2(LAMBDA x, y : MkWord(LAMBDA i : BitAnd(x[i], y[i], LimbBits), Len(x)), a, b)

\* a >> k (logical, unsigned)
ShrW(a, k) ==
  LET q == k \div LimbBits
      r == k % LimbBits
  IN Bind1(LAMBDA x :
             MkWord(LAMBDA i : (Limb(x, i + q) \div Pow2(r))
                               + (Limb(x, i + q + 1) % Pow2(r)) * Pow2(LimbBits - r),
                    Len(x)),
           a)

RECURSIVE Carry(_, _, _)
Carry(a, b, i) ==
  IF i = 0 THEN 0 ELSE (a[i] + b[i] + Carry(a, b, i - 1)) \div LimbBase

\* a + b modulo 2^width
AddW(a, b) ==
  Bind2(LAMBDA x, y :
          MkWord(LAMBDA i : (x[i] + y[i] + Carry(x, y, i - 1)) % LimbBase, Len(x)),
        a, b)

\* ~a
NotW(a) == Bind1(LAMBDA x : MkWord(LAMBDA i : LimbBase - 1 - x[i], Len(x)), a)

\* a - b modulo 2^width (two's complement)
SubW(a, b) == AddW(AddW(a, NotW(b)), NatToWord(1, Len(a) * LimbBits))

\* the k-th byte of a word, k counted from the least significant
ByteOfW(a, k) == (a[(k \div 2) + 1] \div Pow2(8 * (k % 2))) % 256

\* the k-th column of the long multiplication of two words, byte by byte
MulColumn(a, b, k) ==
  IF k = 0 THEN ByteOfW(a, 0) * ByteOfW(b, 0)
  ELSE IF k = 1 THEN ByteOfW(a, 0) * ByteOfW(b, 1) + ByteOfW(a, 1) * ByteOfW(b, 0)
  ELSE IF k = 2 THEN ByteOfW(a, 0) * ByteOfW(b, 2) + ByteOfW(a, 1) * ByteOfW(b, 1)
                     + ByteOfW(a, 2) * ByteOfW(b, 0)
  ELSE ByteOfW(a, 0) * ByteOfW(b, 3) + ByteOfW(a, 1) * ByteOfW(b, 2)
       + ByteOfW(a, 2) * ByteOfW(b, 1) + ByteOfW(a, 3) * ByteOfW(b, 0)

\* a * b modulo 2^32 (uint32_t operands)
MulW(a, b) ==
  Bind2(LAMBDA x, y :
          Bind2(LAMBDA low, high :
                  <<low % LimbBase, (high + low \div LimbBase) % LimbBase>>,
                MulColumn(x, y, 0) + (MulColumn(x, y, 1) % 256) * 256,
                (MulColumn(x, y, 1) \div 256) + MulColumn(x, y, 2)
                  + (MulColumn(x, y, 3) % 256) * 256),
        a, b)

\* a hexadecimal literal, most significant digit first, as a word of the width
RECURSIVE HexNat(_)
HexNat(digits) ==
  IF digits = <<>> THEN 0
  ELSE HexNat(SubSeq(digits, 1, Len(digits) - 1)) * 16 + digits[Len(digits)]

Hex(digits, width) ==
  LET n == Len(digits)
      P(i, j) == n - 4 * i + j
      D(i, j) == IF P(i, j) >= 1 THEN digits[P(i, j)] ELSE 0
  IN MkWord(LAMBDA i : HexNat(<<D(i, 1), D(i, 2), D(i, 3), D(i, 4)>>),
            width \div LimbBits)

\* the number of 1 bits among the low `bits` bits of a limb, by halves
RECURSIVE BitCount(_, _)
BitCount(n, bits) ==
  IF bits = 1 THEN n % 2
  ELSE LET h == bits \div 2
       IN BitCount(n % Pow2(h), h) + BitCount(n \div Pow2(h), h)

RECURSIVE SumLimbs(_, _)
SumLimbs(x, i) == IF i = 0 THEN 0 ELSE BitCount(x[i], LimbBits) + SumLimbs(x, i - 1)

\* _mm_popcnt_u32 / _mm_popcnt_u64: the POPCNT instruction
mm_popcnt(x) ==
  Bind1(LAMBDA w : NatToWord(SumLimbs(w, Len(w)), Len(w) * LimbBits), x)

\* the portable uint32_t PopCount, statement by statement
PopCount32_1(value) ==
  Bind1(LAMBDA v : SubW(v, AndW(ShrW(v, 1), Hex(<<5,5,5,5,5,5,5,5>>, 32))), value)

PopCount32_2(value) ==
  Bind1(LAMBDA v : AddW(AndW(v, Hex(<<3,3,3,3,3,3,3,3>>, 32)),
                        AndW(ShrW(v, 2), Hex(<<3,3,3,3,3,3,3,3>>, 32))),
        value)

PopCount32_3(value) ==
  Bind1(LAMBDA v : ShrW(MulW(AndW(AddW(v, ShrW(v, 4)),
                                  Hex(<<0,15,0,15,0,15,0,15>>, 32)),
                             Hex(<<0,1,0,1,0,1,0,1>>, 32)),
                        24),
        value)

PopCount32(value) == PopCount32_3(PopCount32_2(PopCount32_1(value)))

\* the portable uint64_t PopCount, statement by statement
PopCount64_1(value) ==
  Bind1(LAMBDA v : AddW(AndW(v, Hex(<<5,5,5,5,5,5,5,5,5,5,5,5,5,5,5,5>>, 64)),
                        AndW(ShrW(v, 1), Hex(<<5,5,5,5,5,5,5,5,5,5,5,5,5,5,5,5>>, 64))),
        value)

PopCount64_2(value) ==
  Bind1(LAMBDA v : AddW(AndW(v, Hex(<<3,3,3,3,3,3,3,3,3,3,3,3,3,3,3,3>>, 64)),
                        AndW(ShrW(v, 2), Hex(<<3,3,3,3,3,3,3,3,3,3,3,3,3,3,3,3>>, 64))),
        value)

PopCount64_3(value) ==
  Bind1(LAMBDA v : AndW(AddW(v, ShrW(v, 4)),
                        Hex(<<0,15,0,15,0,15,0,15,0,15,0,15,0,15,0,15>>, 64)),
        value)

PopCount64_4(value) == Bind1(LAMBDA v : AddW(v, ShrW(v, 8)), value)

PopCount64_5(value) == Bind1(LAMBDA v : AddW(v, ShrW(v, 16)), value)

\* mutant: the final mask keeps six bits instead of seven
PopCount64_6_NarrowMask(value) ==
  Bind1(LAMBDA v : AndW(AddW(v, ShrW(v, 32)), Hex(<<0,0,0,0,0,0,3,15>>, 64)), value)

PopCount64_6(value) ==
  Bind1(LAMBDA v : AndW(AddW(v, ShrW(v, 32)), Hex(<<0,0,0,0,0,0,7,15>>, 64)), value)

PopCount64(value) ==
  PopCount64_6(PopCount64_5(PopCount64_4(PopCount64_3(PopCount64_2(
    PopCount64_1(value))))))

\* overload resolution and the #ifdef __SSE4_1__ build switch
PopCount(sse, x) ==
  IF sse THEN mm_popcnt(x)
  ELSE IF Len(x) = 2 THEN PopCount32(x) ELSE PopCount64(x)

(***************************************************************************)
(* Bit utilities on vertex ids and colour masks                            *)
(***************************************************************************)
\* (value >> idx) & 1
Get(value, idx) == (value \div Pow2(idx)) % 2

\* Set(&target, index) = value: clear the bit position, then set it
Set(target, index, value) ==
  Bind2(LAMBDA t, idx : (t - Get(t, idx) * Pow2(idx)) + (value % 2) * Pow2(idx),
        target, index)

\* 1 << ndim
GetNumberOfStates(ndim) == Pow2(ndim)

GetNumberOfColors(ndim) == ndim

\* PopCount of a NumberType value of the given width, as a number
PopCountOf(sse, width, n) == WordToNat(PopCount(sse, NatToWord(n, width)))

(***************************************************************************)
(* BFS topological generator                                               *)
(***************************************************************************)
\* mutant: equal depth is ordered by ascending id
TopologicalCompare_Ascending(sse, a, b) ==
  Bind2(LAMBDA pa, pb : IF pa = pb THEN a < b ELSE pa < pb,
        PopCountOf(sse, 32, a), PopCountOf(sse, 32, b))

\* TopologicalCompare<uint32_t>::operator()(a, b)
TopologicalCompare(sse, a, b) ==
  Bind2(LAMBDA pa, pb : IF pa = pb THEN a > b ELSE pa < pb,
        PopCountOf(sse, 32, a), PopCountOf(sse, 32, b))

\* std::set<NumberType, TopologicalCompare>::insert; the sequence is the set
\* in iteration order, and a key equivalent to one present is not inserted
SetInsert(sse, set, x) ==
  Bind1(LAMBDA k :
          IF k < Len(set) /\ ~TopologicalCompare(sse, x, set[k + 1]) THEN set
          ELSE SubSeq(set, 1, k) \o <<x>> \o SubSeq(set, k + 1, Len(set)),
        Cardinality({j \in 1..Len(set) : TopologicalCompare(sse, set[j], x)}))

\* the locals of GenerateColoring when the while loop is first reached
GenLocals(n) ==
  [queue      |-> <<0>>,
   result     |-> [v \in 0..(GetNumberOfStates(n) - 1) |-> 0],
   open       |-> [v \in 0..(GetNumberOfStates(n) - 1) |-> v = 0],
   closed     |-> [v \in 0..(GetNumberOfStates(n) - 1) |-> FALSE],
   next_color |-> 0]

\* the inner for loop over lo <= i < hi: insert every undiscovered child reached by
\* setting a 0 bit (the range is walked in order, by halves)
RECURSIVE Expand(_, _, _, _, _)
Expand(sse, current_state, lo, hi, locals) ==
  Bind1(LAMBDA g :
          IF hi <= lo THEN g
          ELSE IF hi = lo + 1
          THEN IF Get(current_state, lo) = 0
               THEN LET child_state == Set(current_state, lo, 1)
                    IN IF ~g.open[child_state]
                       THEN [g EXCEPT !.open[child_state] = TRUE,
                                      !.queue = SetInsert(sse, @, child_state)]
                       ELSE g
               ELSE g
          ELSE Expand(sse, current_state, (lo + hi) \div 2, hi,
                      Expand(sse, current_state, lo, (lo + hi) \div 2, g)),
        locals)

\* mutant: next_color is never advanced
Finalize_NoAdvance(n, current_state, locals) ==
  IF ~locals.closed[current_state]
  THEN [locals EXCEPT !.closed[current_state] = TRUE,
                      !.result[current_state] = locals.next_color]
  ELSE locals

\* if (!closed[current_state]) { ... }
Finalize(n, current_state, locals) ==
  IF ~locals.closed[current_state]
  THEN [locals EXCEPT !.closed[current_state] = TRUE,
                      !.result[current_state] = locals.next_color,
                      !.next_color = (locals.next_color + 1) % GetNumberOfColors(n)]
  ELSE locals

\* mutant: the inner loop stops one bit short (i < ndim - 1)
GenIter_OneBitShort(sse, n, locals) ==
  LET current_state == Head(locals.queue)
  IN Expand(sse, current_state, 0, n - 1,
            Finalize(n, current_state, [locals EXCEPT !.queue = Tail(@)]))

\* one iteration of the while (queue.size() > 0) loop
GenIter(sse, n, locals) ==
  LET current_state == Head(locals.queue)
  IN Expand(sse, current_state, 0, n,
            Finalize(n, current_state, [locals EXCEPT !.queue = Tail(@)]))

(***************************************************************************)
(* Mirror generator and the two colouring representations                  *)
(***************************************************************************)
\* mutant: the descending half is off by one
MirrorAssignment_OffByOne(ndim_, state) ==
  LET cycle_offset == state % (ndim_ * 2)
  IN IF cycle_offset < ndim_ THEN cycle_offset
     ELSE 2 * ndim_ - cycle_offset

\* mutant: the second half of the cycle repeats the first instead of mirroring it
MirrorAssignment_Sawtooth(ndim_, state) ==
  LET cycle_offset == state % (ndim_ * 2)
  IN IF cycle_offset < ndim_ THEN cycle_offset
     ELSE cycle_offset - ndim_

\* MirrorAssignment<NumberType>::operator[](state)
MirrorAssignment(ndim_, state) ==
  LET cycle_offset == state % (ndim_ * 2)
  IN IF cycle_offset < ndim_ THEN cycle_offset
     ELSE 2 * ndim_ - cycle_offset - 1

VectorColoring(data) == [kind |-> "vector", ndim_ |-> 0, data |-> data]

MirrorColoring(n) == [kind |-> "MirrorAssignment", ndim_ |-> n, data |-> <<>>]

NoColoring == [kind |-> "none", ndim_ |-> 0, data |-> <<>>]

\* coloring[state] for either ColorAssignment
ColorAt(c, state) ==
  IF c.kind = "MirrorAssignment" THEN MirrorAssignment(c.ndim_, state)
  ELSE c.data[state]

(***************************************************************************)
(* Validator                                                               *)
(***************************************************************************)
\* the inner for loop of ValidateColoring over lo <= i < hi: flip bit i, record the
\* neighbour's colour (the range is walked in order, by halves)
RECURSIVE SeenFrom(_, _, _, _, _)
SeenFrom(c, current_state, lo, hi, seen) ==
  Bind1(LAMBDA colors_seen :
          IF hi = lo THEN colors_seen
          ELSE IF hi = lo + 1
          THEN LET neighbor_state ==
                     IF Get(current_state, lo) # 0 THEN Set(current_state, lo, 0)
                     ELSE Set(current_state, lo, 1)
               IN Set(colors_seen, ColorAt(c, neighbor_state), 1)
          ELSE SeenFrom(c, current_state, (lo + hi) \div 2, hi,
                        SeenFrom(c, current_state, lo, (lo + hi) \div 2, colors_seen)),
        seen)

\* mutant: the vertex's own colour is not recorded
ColorsSeen_NoSelf(c, n, current_state) == SeenFrom(c, current_state, 0, n, 0)

\* colors_seen when the inner loop of ValidateColoring is left
ColorsSeen(c, n, current_state) ==
  SeenFrom(c, current_state, 0, n, Set(0, ColorAt(c, current_state), 1))

\* what the failing branch of ValidateColoring prints
Diagnostic(u, n, current_state, count, colors_seen, n_colors) ==
  IF u = "cc"
  THEN << [kind |-> "Saw colors, expected", args |-> <<count, n_colors>>],
          [kind |-> "colors_seen", args |-> <<colors_seen>>] >>
  ELSE << [kind |-> "For state, saw colors, expected",
           args |-> <<n, current_state, count, colors_seen, n_colors>>],
          [kind |-> "colors_seen", args |-> <<colors_seen>>] >>

(***************************************************************************)
(* Reporter                                                                *)
(***************************************************************************)
\* mutant: no case 4, dimension 4 falls through to the default
PrintColoring_NoCase4(c, n) ==
  IF n = 2
  THEN << [kind |-> "kFormat2",
           args |-> <<ColorAt(c, 0), ColorAt(c, 1), ColorAt(c, 2), ColorAt(c, 3)>>] >>
  ELSE IF n = 3
  THEN << [kind |-> "kFormat3",
           args |-> <<ColorAt(c, 0), ColorAt(c, 1), ColorAt(c, 2), ColorAt(c, 3),
                      ColorAt(c, 4), ColorAt(c, 5), ColorAt(c, 6), ColorAt(c, 7)>>] >>
  ELSE << [kind |-> "No visualization for dimension", args |-> <<n>>] >>

\* what PrintColoring writes to out
PrintColoring(c, n) ==
  IF n = 2
  THEN << [kind |-> "kFormat2",
           args |-> <<ColorAt(c, 0), ColorAt(c, 1), ColorAt(c, 2), ColorAt(c, 3)>>] >>
  ELSE IF n = 3
  THEN << [kind |-> "kFormat3",
           args |-> <<ColorAt(c, 0), ColorAt(c, 1), ColorAt(c, 2), ColorAt(c, 3),
                      ColorAt(c, 4), ColorAt(c, 5), ColorAt(c, 6), ColorAt(c, 7)>>] >>
  ELSE IF n = 4
  THEN << >>
  ELSE << [kind |-> "No visualization for dimension", args |-> <<n>>] >>

(***************************************************************************)
(* Program state                                                           *)
(***************************************************************************)
VARIABLES
  unit,          \* "cc" = devils_checkerboard.cc, "part" = its later variant
  sse41,         \* __SSE4_1__ defined in this build
  entry,         \* the function that was called
  pc,            \* position of control
  ndim,
  queue, result, open, closed, next_color,   \* locals of GenerateColoring
  coloring,      \* the colouring handed to ValidateColoring / PrintColoring
  current_state, \* loop variable of ValidateColoring
  is_valid,      \* what ValidateColoring returned
  out,           \* what was written to std::cout
  exit_code,     \* <<>> until the driver returns
  value,         \* argument of a direct PopCount / MirrorAssignment call
  retval         \* its return value

genVars == <<queue, result, open, closed, next_color>>
callVars == <<value, retval>>
buildVars == <<unit, sse41, entry>>
vars == <<unit, sse41, entry, pc, ndim, queue, result, open, closed, next_color,
          coloring, current_state, is_valid, out, exit_code, value, retval>>

Drivers == {"main", "old_main"}

\* NumberType of the ValidateColoring instantiation
Width == IF unit = "part" /\ entry \in {"main", "mirror"} THEN 64 ELSE 32

\* the statements of each body, in program order
Body ==
  IF entry = "main" /\ unit = "cc"
  THEN <<"generate", "validate", "validated", "print", "advance">>
  ELSE IF entry = "main"
  THEN <<"print", "validate", "validated", "advance">>
  ELSE IF entry = "old_main"
  THEN <<"generate", "print", "validate", "validated", "advance">>
  ELSE IF entry = "bfs"
  THEN <<"generate", "validate", "done">>
  ELSE IF entry \in {"mirror", "validate"}
  THEN <<"validate", "done">>
  ELSE <<"call", "done">>

\* the statement after the one at pc
After(p) == Body[(CHOOSE i \in 1..Len(Body) : Body[i] = p) + 1]

\* for (ndim = 2; ndim < 5; ++ndim) and for (ndim = 2; ndim < 17; ndim *= ndim)
LoopCondition == IF unit = "part" /\ entry = "main" THEN ndim < 17 ELSE ndim < 5

LoopIncrement == IF unit = "part" /\ entry = "main" THEN ndim * ndim ELSE ndim + 1

Header(n) ==
  [kind |-> "n, states, colors",
   args |-> <<n, GetNumberOfStates(n), GetNumberOfColors(n)>>]

Validated(b) == [kind |-> IF b THEN "Validated: yes" ELSE "Validated: no", args |-> <<>>]

Idle == /\ queue = <<>> /\ result = <<>> /\ open = <<>> /\ closed = <<>>
        /\ next_color = 0
        /\ current_state = 0 /\ is_valid = FALSE
        /\ out = <<>> /\ exit_code = <<>>
        /\ value = 0 /\ retval = 0

Builds == {<<"cc", TRUE>>, <<"part", TRUE>>, <<"part", FALSE>>}

(***************************************************************************)
(* Drivers: main of either unit, old_main; and the composed calls          *)
(* ValidateColoring(GenerateColoring(ndim), ndim) ("bfs") and              *)
(* ValidateColoring(MirrorAssignment(ndim), ndim) ("mirror")               *)
(***************************************************************************)
StartGenerate(n) ==
  /\ queue = GenLocals(n).queue
  /\ result = GenLocals(n).result
  /\ open = GenLocals(n).open
  /\ closed = GenLocals(n).closed
  /\ next_color = GenLocals(n).next_color

InitMain ==
  /\ \E b \in Builds : unit = b[1] /\ sse41 = b[2]
  /\ \/ /\ entry = "main"
        /\ ndim = 2
        /\ pc = "loop"
        /\ Idle
     \/ /\ unit = "part"
        /\ entry = "old_main"
        /\ ndim = 2
        /\ pc = "loop"
        /\ Idle
     \/ /\ entry = "bfs"
        /\ ndim \in 1..MaxNdim
        /\ pc = "generate"
        /\ StartGenerate(ndim)
        /\ current_state = 0 /\ is_valid = FALSE
        /\ out = <<>> /\ exit_code = <<>>
        /\ value = 0 /\ retval = 0
     \/ /\ unit = "part"
        /\ entry = "mirror"
        /\ ndim \in 1..MaxNdim
        /\ pc = "validate"
        /\ Idle
  /\ coloring = IF entry = "mirror" THEN MirrorColoring(ndim) ELSE NoColoring

\* the loop condition holds: print the header and enter the body
DriverLoop ==
  /\ pc = "loop"
  /\ LoopCondition
  /\ out' = Append(out, Header(ndim))
  /\ pc' = Body[1]
  /\ IF Body[1] = "generate"
     THEN /\ queue' = GenLocals(ndim).queue
          /\ result' = GenLocals(ndim).result
          /\ open' = GenLocals(ndim).open
          /\ closed' = GenLocals(ndim).closed
          /\ next_color' = GenLocals(ndim).next_color
          /\ UNCHANGED coloring
     ELSE /\ coloring' = MirrorColoring(ndim)
          /\ UNCHANGED genVars
  /\ current_state' = 0
  /\ UNCHANGED <<buildVars, ndim, is_valid, exit_code, callVars>>

\* the loop condition fails: return 0
DriverExit ==
  /\ pc = "loop"
  /\ ~LoopCondition
  /\ exit_code' = <<0>>
  /\ pc' = "exit"
  /\ UNCHANGED <<buildVars, ndim, genVars, coloring, current_state, is_valid, out,
                 callVars>>

\* one iteration of the while loop of GenerateColoring
GenStep ==
  /\ pc = "generate"
  /\ Len(queue) > 0
  /\ \E g \in {GenIter(sse41, ndim,
                         [queue |-> queue, result |-> result, open |-> open,
                          closed |-> closed, next_color |-> next_color])} :
        /\ queue' = g.queue
        /\ result' = g.result
        /\ open' = g.open
        /\ closed' = g.closed
        /\ next_color' = g.next_color
  /\ UNCHANGED <<buildVars, pc, ndim, coloring, current_state, is_valid, out,
                 exit_code, callVars>>

\* the queue is empty: return result
GenReturn ==
  /\ pc = "generate"
  /\ Len(queue) = 0
  /\ coloring' = VectorColoring(result)
  /\ pc' = After("generate")
  /\ current_state' = 0
  /\ UNCHANGED <<buildVars, ndim, genVars, is_valid, out, exit_code, callVars>>

\* mutant: the failing branch prints but does not return
ValidateIter_NoReturn ==
  /\ pc = "validate"
  /\ current_state < GetNumberOfStates(ndim)
  /\ \E n_colors \in {GetNumberOfColors(ndim)},
        colors_seen \in {ColorsSeen(coloring, ndim, current_state)} :
     \E count \in {PopCountOf(sse41, Width, colors_seen)} :
        /\ out' = IF count # n_colors
                  THEN out \o Diagnostic(unit, ndim, current_state, count,
                                         colors_seen, n_colors)
                  ELSE out
        /\ current_state' = current_state + 1
        /\ UNCHANGED <<is_valid, pc>>
  /\ UNCHANGED <<buildVars, ndim, genVars, coloring, exit_code, callVars>>

\* one iteration of the outer for loop of ValidateColoring
ValidateIter ==
  /\ pc = "validate"
  /\ current_state < GetNumberOfStates(ndim)
  /\ \E n_colors \in {GetNumberOfColors(ndim)},
        colors_seen \in {ColorsSeen(coloring, ndim, current_state)} :
     \E count \in {PopCountOf(sse41, Width, colors_seen)} :
        IF count # n_colors
        THEN /\ out' = out \o Diagnostic(unit, ndim, current_state, count,
                                         colors_seen, n_colors)
             /\ is_valid' = FALSE
             /\ pc' = After("validate")
             /\ UNCHANGED current_state
        ELSE /\ current_state' = current_state + 1
             /\ UNCHANGED <<out, is_valid, pc>>
  /\ UNCHANGED <<buildVars, ndim, genVars, coloring, exit_code, callVars>>

\* the outer loop ran to its end: return true
ValidateReturn ==
  /\ pc = "validate"
  /\ current_state >= GetNumberOfStates(ndim)
  /\ is_valid' = TRUE
  /\ pc' = After("validate")
  /\ UNCHANGED <<buildVars, ndim, genVars, coloring, current_state, out, exit_code,
                 callVars>>

\* mutant: a failed validation ends the program with exit code 1
DriverValidated_Abort ==
  /\ pc = "validated"
  /\ out' = Append(out, Validated(is_valid))
  /\ IF is_valid
     THEN pc' = After("validated") /\ UNCHANGED exit_code
     ELSE pc' = "exit" /\ exit_code' = <<1>>
  /\ UNCHANGED <<buildVars, ndim, genVars, coloring, current_state, is_valid,
                 callVars>>

\* fmt::print(std::cout, "Validated: {}\n", ...)
DriverValidated ==
  /\ pc = "validated"
  /\ out' = Append(out, Validated(is_valid))
  /\ pc' = After("validated")
  /\ UNCHANGED <<buildVars, ndim, genVars, coloring, current_state, is_valid,
                 exit_code, callVars>>

\* PrintColoring(std::cout, coloring, ndim)
DriverPrint ==
  /\ pc = "print"
  /\ out' = out \o PrintColoring(coloring, ndim)
  /\ pc' = After("print")
  /\ UNCHANGED <<buildVars, ndim, genVars, coloring, current_state, is_valid,
                 exit_code, callVars>>

\* std::cout.flush() and the loop increment
DriverAdvance ==
  /\ pc = "advance"
  /\ ndim' = LoopIncrement
  /\ pc' = "loop"
  /\ UNCHANGED <<buildVars, genVars, coloring, current_state, is_valid, out,
                 exit_code, callVars>>

NextMain ==
  \/ DriverLoop
  \/ DriverExit
  \/ GenStep
  \/ GenReturn
  \/ ValidateIter
  \/ ValidateReturn
  \/ DriverValidated
  \/ DriverPrint
  \/ DriverAdvance

SpecMain == InitMain /\ [][NextMain]_vars

\* the program is sequential: a step that can be taken is taken
FairSpecMain == SpecMain /\ WF_vars(NextMain)

(***************************************************************************)
(* Direct calls ValidateColoring(coloring, ndim) on arbitrary arrays       *)
(***************************************************************************)
\* the arrays that differ from base in at most k vertices, colours in [0, n)
RECURSIVE Within(_, _, _)
Within(base, n, k) ==
  IF k = 0 THEN {base}
  ELSE Bind1(LAMBDA prev :
               prev \cup {[c EXCEPT ![v] = col] :
                            c \in prev, v \in DOMAIN base, col \in 0..(n - 1)},
             Within(base, n, k - 1))

\* the seed of the input arrays: the vertices taken by Hamming weight, then by
\* descending id, are dealt the colours 0, 1, ..., n - 1 round-robin
SeedBefore(u, v) ==
  \/ BitCount(u, LimbBits) < BitCount(v, LimbBits)
  \/ BitCount(u, LimbBits) = BitCount(v, LimbBits) /\ u > v

SeedColoring(n) ==
  [v \in 0..(GetNumberOfStates(n) - 1) |->
     Cardinality({u \in 0..(GetNumberOfStates(n) - 1) : SeedBefore(u, v)}) % n]

Arrays(n) == Within(SeedColoring(n), n, MaxDiff)

InitValidate ==
  /\ \E b \in Builds : unit = b[1] /\ sse41 = b[2]
  /\ entry = "validate"
  /\ ndim \in 1..MaxValNdim
  /\ coloring \in {VectorColoring(d) : d \in Arrays(ndim)}
  /\ pc = "validate"
  /\ Idle

NextValidate ==
  \/ ValidateIter
  \/ ValidateReturn

SpecValidate == InitValidate /\ [][NextValidate]_vars

(***************************************************************************)
(* Direct calls PopCount(value) and MirrorAssignment(ndim)[value]          *)
(***************************************************************************)
LimbPatterns == <<0, 65535, 21845, 32769, 3895, 4660, 43690, 65244>>

Patterns == {LimbPatterns[i] : i \in 1..NumPatterns}

Samples ==
  {<<a, b>> : a \in Patterns, b \in Patterns}
  \cup {<<a, b, c, d>> : a \in Patterns, b \in Patterns, c \in Patterns, d \in Patterns}

InitCalls ==
  /\ \E b \in Builds : unit = b[1] /\ sse41 = b[2]
  /\ \/ /\ entry = "PopCount"
        /\ ndim = 0
        /\ value \in Samples
     \/ /\ unit = "part"
        /\ entry = "MirrorAssignment"
        /\ ndim \in 1..MaxNdim
        /\ value \in 0..(GetNumberOfStates(ndim) - 1)
  /\ pc = "call"
  /\ coloring = NoColoring
  /\ queue = <<>> /\ result = <<>> /\ open = <<>> /\ closed = <<>>
  /\ next_color = 0
  /\ current_state = 0 /\ is_valid = FALSE
  /\ out = <<>> /\ exit_code = <<>>
  /\ retval = 0

PopCountCall ==
  /\ pc = "call"
  /\ entry = "PopCount"
  /\ retval' = PopCount(sse41, value)
  /\ pc' = After("call")
  /\ UNCHANGED <<buildVars, ndim, genVars, coloring, current_state, is_valid, out,
                 exit_code, value>>

MirrorCall ==
  /\ pc = "call"
  /\ entry = "MirrorAssignment"
  /\ retval' = MirrorAssignment(ndim, value)
  /\ pc' = After("call")
  /\ UNCHANGED <<buildVars, ndim, genVars, coloring, current_state, is_valid, out,
                 exit_code, value>>

NextCalls ==
  \/ PopCountCall
  \/ MirrorCall

SpecCalls == InitCalls /\ [][NextCalls]_vars

(***************************************************************************)
(* Properties                                                              *)
(***************************************************************************)
Vertices == 0..(Pow2(ndim) - 1)

\* v XOR (1 << i)
XorBit(v, i) == IF (v \div Pow2(i)) % 2 = 1 THEN v - Pow2(i) ELSE v + Pow2(i)

\* the colours shown by v and its ndim neighbours
NeighborhoodColors(v) ==
  {ColorAt(coloring, v)} \cup {ColorAt(coloring, XorBit(v, i)) : i \in 0..(ndim - 1)}

Complete(v) == Cardinality(NeighborhoodColors(v)) = ndim

\* ValidateColoring has returned for the colouring of this iteration
ValidateReturned == pc \in {"validated", "done"}

BfsValidated == ValidateReturned /\ coloring.kind = "vector" /\ entry # "validate"

MirrorValidated == ValidateReturned /\ coloring.kind = "MirrorAssignment"

\* C1 as stated: for ndim in {2,3,4,5}, ValidateColoring(GenerateColoring(ndim), ndim)
\* returns true.
C1_AllValid == (BfsValidated /\ ndim \in 2..5) => is_valid

\* C1 amended: for ndim in {2,3,4,5}, ValidateColoring(GenerateColoring(ndim), ndim)
\* returns true for ndim = 2 and false for ndim = 3, 4, 5.
C1_ValidOnlyForTwo == (BfsValidated /\ ndim \in 2..5) => (is_valid <=> ndim = 2)

C1_Witness == BfsValidated /\ entry = "bfs" /\ ndim = 2 /\ is_valid

\* C2: ValidateColoring returns true if and only if every vertex together with its
\* ndim neighbours shows exactly ndim distinct colours.
C2_ValidateIff ==
  (entry = "validate" /\ pc = "done") => (is_valid <=> \A v \in Vertices : Complete(v))

C2_Witness == entry = "validate" /\ pc = "done" /\ ndim = 3 /\ is_valid

\* C3 as stated: for ndim in {2,3,4}, ValidateColoring(MirrorAssignment(ndim), ndim)
\* returns true.
C3_AllValid == (MirrorValidated /\ ndim \in 2..4) => is_valid

\* C3 amended: for ndim in {2,3,4}, ValidateColoring(MirrorAssignment(ndim), ndim)
\* returns true for ndim = 2 and ndim = 4 and false for ndim = 3.
C3_ValidForTwoAndFour == (MirrorValidated /\ ndim \in 2..4) => (is_valid <=> ndim # 3)

C3_Witness == MirrorValidated /\ ndim = 4 /\ is_valid

\* C4: MirrorAssignment(ndim)[v] is offset when offset < ndim and 2*ndim - offset - 1
\* otherwise, where offset = v mod (2*ndim); it lies in [0, ndim) and is periodic in v
\* with period 2*ndim.
C4_TriangleWave ==
  (entry = "MirrorAssignment" /\ pc = "done") =>
    LET offset == value % (2 * ndim)
    IN /\ retval = IF offset < ndim THEN offset ELSE 2 * ndim - offset - 1
       /\ retval \in 0..(ndim - 1)
       /\ \A w \in Vertices :
            (w + 2 * ndim) \in Vertices =>
              MirrorAssignment(ndim, w + 2 * ndim) = MirrorAssignment(ndim, w)
       /\ \A w \in Vertices : w % (2 * ndim) = offset => MirrorAssignment(ndim, w) = retval

C4_Witness ==
  /\ entry = "MirrorAssignment" /\ pc = "done"
  /\ value >= 2 * ndim
  /\ value % (2 * ndim) > ndim

\* the bitmask with one bit per colour of the set
RECURSIVE MaskOf(_)
MaskOf(colors) ==
  IF colors = {} THEN 0
  ELSE LET c == CHOOSE c \in colors : TRUE IN Pow2(c) + MaskOf(colors \ {c})

\* C5: vertices are examined in increasing id order; when ValidateColoring returns
\* false it stopped at the smallest vertex whose closed neighbourhood does not show
\* exactly ndim colours and the diagnostic is for that vertex only; when it returns
\* true no diagnostic is emitted.
C5_FirstFailure ==
  entry = "validate" =>
    /\ \A v \in Vertices : v < current_state => Complete(v)
    /\ pc = "validate" => out = <<>>
    /\ (pc = "done" /\ is_valid) => (out = <<>> /\ current_state = Pow2(ndim))
    /\ (pc = "done" /\ ~is_valid) =>
         /\ current_state \in Vertices
         /\ ~Complete(current_state)
         /\ out = Diagnostic(unit, ndim, current_state,
                             Cardinality(NeighborhoodColors(current_state)),
                             MaskOf(NeighborhoodColors(current_state)), ndim)

C5_Witness ==
  /\ entry = "validate" /\ pc = "done" /\ ~is_valid
  /\ current_state > 2
  /\ \E v \in Vertices : v > current_state /\ ~Complete(v)

IsHeader(e) == e.kind = "n, states, colors"

IsValidated(e) == e.kind \in {"Validated: yes", "Validated: no"}

\* the dimension values of the driver's sequence
DriverDims == IF unit = "part" /\ entry = "main" THEN <<2, 4, 16>> ELSE <<2, 3, 4>>

\* the header and Validated lines of out, in order
Lines == SelectSeq(out, LAMBDA e : IsHeader(e) \/ IsValidated(e))

DriverComplete ==
  /\ exit_code = <<0>>
  /\ Len(Lines) = 2 * Len(DriverDims)
  /\ \A k \in 1..Len(DriverDims) :
       /\ Lines[2 * k - 1] = Header(DriverDims[k])
       /\ IsValidated(Lines[2 * k])

\* C6: whatever ValidateColoring returns, the driver processes every dimension value
\* of its sequence in order, emits a header and a Validated line for each, and then
\* returns exit code 0.
C6_DriverCompletes ==
  /\ []((entry \in Drivers /\ pc = "exit") => DriverComplete)
  /\ []((entry \in Drivers /\ pc # "exit") => exit_code = <<>>)
  /\ (entry \in Drivers) ~> (pc = "exit")

C6_Witness ==
  /\ entry \in Drivers /\ pc = "exit"
  /\ \E i \in 1..Len(out) : out[i].kind = "Validated: no"
  /\ \E i \in 1..Len(out) : out[i].kind = "Validated: yes"

\* the colours of vertices 0 .. 2^ndim - 1 in vertex-id order
ColorsInOrder == [k \in 1..Pow2(ndim) |-> ColorAt(coloring, k - 1)]

Placeholder == << [kind |-> "No visualization for dimension", args |-> <<ndim>>] >>

Diagram ==
  << [kind |-> IF ndim = 2 THEN "kFormat2" ELSE "kFormat3", args |-> ColorsInOrder] >>

\* C7 as stated: PrintColoring substitutes the colours of vertices 0..3 (ndim = 2) or
\* 0..7 (ndim = 3) in vertex-id order into the diagram, and for every ndim outside
\* {2,3} it emits the placeholder text.
C7_PlaceholderOutside23 ==
  [][pc = "print" =>
       out' = out \o (IF ndim \in {2, 3} THEN Diagram ELSE Placeholder)]_vars

\* C7 amended: as stated for ndim in {2,3}; for ndim = 4 PrintColoring emits nothing;
\* for every ndim outside {2,3,4} it emits the placeholder text.
C7_PlaceholderOutside234 ==
  [][pc = "print" =>
       out' = out \o (IF ndim \in {2, 3} THEN Diagram
                      ELSE IF ndim = 4 THEN <<>> ELSE Placeholder)]_vars

C7_Witness ==
  /\ entry \in Drivers
  /\ \E i \in 1..Len(out) : out[i].kind = "No visualization for dimension"
  /\ \E i \in 1..Len(out) : out[i].kind = "kFormat2"

\* the positions of the set bits of a word
SetBits(x) ==
  {k \in 0..(Len(x) * LimbBits - 1) :
     (x[(k \div LimbBits) + 1] \div Pow2(k % LimbBits)) % 2 = 1}

\* C8: for 32-bit and 64-bit values (0 and all-ones included) the portable PopCount
\* returns exactly the number of set bits, the result of the hardware path.
C8_FallbackCounts ==
  (entry = "PopCount" /\ pc = "done" /\ ~sse41) =>
    /\ retval = NatToWord(Cardinality(SetBits(value)), Len(value) * LimbBits)
    /\ retval = mm_popcnt(value)

C8_Witness ==
  /\ entry = "PopCount" /\ pc = "done" /\ ~sse41
  /\ value = <<65535, 65535, 65535, 65535>>
  /\ retval = <<64, 0, 0, 0>>

\* Hamming weight of a vertex id
RECURSIVE Weight(_)
Weight(v) == IF v = 0 THEN 0 ELSE (v % 2) + Weight(v \div 2)

\* the key: Hamming weight ascending, then vertex id descending
Before(u, v) == Weight(u) < Weight(v) \/ (Weight(u) = Weight(v) /\ u > v)

\* position of v in the list of all vertices sorted by the key
Rank(v) == Cardinality({u \in Vertices : Before(u, v)})

\* the locals of GenerateColoring belong to the call for the current ndim
Generating == pc \notin {"loop", "exit"} /\ closed # <<>> /\ DOMAIN closed = Vertices

\* C9: GenerateColoring finalizes the vertices in strictly increasing order of the key
\* (Hamming weight ascending, then id descending), starting with vertex 0 which gets
\* colour 0; the k-th vertex finalized gets colour k mod ndim, so result[v] is
\* rank(v) mod ndim.
C9_TopologicalOrder ==
  Generating =>
    /\ \A v \in Vertices :
         closed[v] =>
           /\ result[v] = Rank(v) % ndim
           /\ \A u \in Vertices : Before(u, v) => closed[u]
    /\ closed[0] => result[0] = 0
    /\ next_color = Cardinality({v \in Vertices : closed[v]}) % ndim

C9_Witness ==
  /\ Generating /\ pc = "generate" /\ ndim = 4
  /\ closed[3] /\ ~closed[14]

\* GenerateColoring has returned the colouring of this iteration
GenReturned == coloring.kind = "vector" /\ pc \notin {"loop", "generate", "exit"}

\* C10: the GenerateColoring loop terminates with an empty frontier; every vertex is
\* finalized exactly once and never re-coloured, so the returned array is a total
\* mapping from [0, 2^ndim) to colours in [0, ndim).
C10_TotalColoring ==
  /\ []((GenReturned /\ entry # "validate") =>
          /\ queue = <<>>
          /\ DOMAIN coloring.data = Vertices
          /\ coloring.data = result
          /\ \A v \in Vertices : closed[v] /\ coloring.data[v] \in 0..(ndim - 1))
  /\ [][(pc = "generate" /\ pc' = "generate") =>
          /\ Cardinality({v \in Vertices : closed'[v] /\ ~closed[v]}) = 1
          /\ \A v \in Vertices : closed[v] => (closed'[v] /\ result'[v] = result[v])]_vars
  /\ (pc = "generate") ~> (pc # "generate")

C10_Witness == GenReturned /\ entry = "bfs" /\ ndim = 5 /\ queue = <<>>

====
